---- MODULE Spec2Model ----
(***************************************************************************)
(* Credential/session manager of myoffice-mcp: the token manager           *)
(* (auth/token-manager.ts), the device-code login (auth/config.ts)         *)
(* and the MSAL cache plugin (auth/cache-plugin.ts), run by one Node.js    *)
(* process at a time over one cache file.                                  *)
(*                                                                         *)
(* A process is single threaded: a synchronous stretch of code is one      *)
(* step, continuations of awaits run from the microtask queue in FIFO      *)
(* order, and network answers, tool calls and the user arrive from         *)
(* outside at any moment.  The file-system calls of one cache write are    *)
(* separate steps so that a crash can fall between any two of them.        *)
(*                                                                         *)
(* The repository holds two sources of FileCachePlugin: the one that       *)
(* writes the cache file in place and the one that queues writes and       *)
(* renames a temp file.  copy says which one the process has loaded: Spec   *)
(* runs the queued one, SpecInPlace the other.                             *)
(***************************************************************************)
EXTENDS Integers, Sequences, FiniteSets, TLC

\* ---------------------------------------------------------------- bounds
NCallers == 2          \* concurrent callers of the token manager
MaxTok == 4            \* access tokens the provider issues in one run
MaxPages == 2          \* pages of the fixture server
MaxPageLen == 2        \* items on one page
MaxItemsArg == 3       \* largest maxItems passed to graphList
MaxChunks == 3         \* payloads reach one byte over MaxChunks chunks

\* ------------------------------------------------------- program constants
OwnerOnly == 384       \* 0o600
CHUNK_SIZE == 3276800          \* 320 * 1024 * 10
MAX_SIMPLE_UPLOAD == 4194304   \* 4 * 1024 * 1024

Callers == 1..NCallers
LoginFrame == 0
Frames == 0..NCallers
Copies == {"inplace", "queued"}
ClientIds == {"", "app"}
ProviderErrors == {"invalid_grant", "network_error"}

VARIABLES
  copy,          \* which FileCachePlugin source is loaded
  clientId,      \* getAuthConfig().clientId (environment / stored config)
  dirExists,     \* the configuration directory exists
  file,          \* the cache file  MSAL_CACHE_FILE
  tmp,           \* the temp file   MSAL_CACHE_FILE.tmp.<pid>
  msalInstance,  \* token-manager.ts: msalInstance is not null
  msalClientId,  \* token-manager.ts: msalClientId
  tmMem,         \* in-memory token cache of the token manager's instance
  loginMem,      \* in-memory token cache of the login's instance
  pc,            \* position of each frame (0: the login, 1..: callers)
  op,            \* operation each frame runs
  res,           \* result of the frame's operation
  newTok,        \* access token in the token response the frame received
  prevTok,       \* access token cached when the frame started its renewal
  sent,          \* network requests the frame's operation has issued
  wrote,         \* cache-file writes carried out for the frame's operation
  chain,         \* per plugin: frames whose write is pending on writeLock
  microtasks,    \* the microtask queue of the process
  wr,            \* the cache write being carried out, or how the last
                 \* one ended when it ended in the catch of writeCache
  issued,        \* last access token the provider issued
  calls,         \* frames whose afterCacheAccess asked for a write that has
                 \* not finished, in the order of the calls
  fileAtStart,   \* what the cache file held when the frame's operation began
  answer,        \* error message the authorization service answered with
  intended,      \* text writeCache serialized for the frame's write
  hadFile,       \* a cache file has existed during the life of the process
  server,        \* the pages the Graph server answers with
  maxItems,      \* graphList: options.maxItems
  items,         \* graphList: items
  nextLink,      \* graphList: nextLink
  lpc,           \* graphList: where the invocation is
  lres,          \* graphList: what the invocation ended with
  round,         \* number of graphList invocations started
  first,         \* what the first invocation ended with
  asked,         \* URL of the latest page request of the invocation
  ucaller,       \* upload: who uploads (uploadFile, uploadAndAttach, direct)
  size,          \* upload: content.length
  upc,           \* upload: where the operation is
  route,         \* upload: the transport function the payload went to
  uploadedBytes, \* graphUploadLarge: uploadedBytes
  puts,          \* graphUploadLarge: Content-Range of the chunk PUTs sent
  inflight,      \* chunk PUTs sent and not answered
  acked,         \* chunk PUTs answered with success
  failed,        \* a response of the upload was not a success
  ures,          \* upload: what the operation ended with
  onProgress,    \* graphUploadLarge: a progress callback was passed
  progress,      \* arguments of the calls of the progress callback
  parsed,        \* chunk PUTs whose response body was read with json()
  uToken,        \* upload: accessToken
  ufetched,      \* upload: the fetch calls made, with their Authorization
  rpc,           \* graphRequest: where the invocation is
  method,        \* graphRequest: options.method
  headers,       \* graphRequest: options.headers
  accessToken,   \* graphRequest: accessToken
  tokenCalls,    \* graphRequest: calls of getAccessToken made
  fetched,       \* graphRequest: the fetch calls made
  received,      \* graphRequest: the response received
  bodyRead,      \* graphRequest: how the response body was read
  rres,          \* graphRequest: what the invocation ended with
  dpc,           \* debug_info: where the command is
  timer,         \* debug_info: the 10 second timer
  timedOut,      \* debug_info: the timer fired before graphRequest settled
  graphTest,     \* debug_info: graphTest
  dres           \* debug_info: what the command returned

vars == <<copy, clientId, dirExists, file, tmp, msalInstance, msalClientId,
          tmMem, loginMem, pc, op, res, newTok, prevTok, sent, wrote,
          chain, microtasks, wr, issued, calls, fileAtStart, answer,
          intended, hadFile, server, maxItems, items, nextLink, lpc, lres,
          round, first, asked, ucaller, size, upc, route, uploadedBytes,
          puts, inflight, acked, failed, ures, onProgress, progress, parsed,
          uToken, ufetched, rpc, method, headers, accessToken, tokenCalls,
          fetched, received, bodyRead, rres, dpc, timer, timedOut, graphTest,
          dres>>

envVars == <<copy, clientId>>
fsVars == <<dirExists, file, tmp, hadFile>>
tmVars == <<msalInstance, msalClientId, tmMem>>
memVars == <<msalInstance, msalClientId, tmMem, loginMem>>
ghostVars == <<newTok, prevTok, sent, wrote, fileAtStart, answer, intended>>
frameVars == <<pc, op, res, newTok, prevTok, sent, wrote, fileAtStart,
              answer, intended>>
queueVars == <<chain, microtasks, wr, calls>>
authVars == <<copy, clientId, dirExists, file, tmp, msalInstance,
              msalClientId, tmMem, loginMem, pc, op, res, newTok, prevTok,
              sent, wrote, chain, microtasks, wr, issued, calls, fileAtStart,
              answer, intended, hadFile>>
listVars == <<server, maxItems, items, nextLink, lpc, lres, round, first,
              asked>>
uploadVars == <<ucaller, size, upc, route, uploadedBytes, puts, inflight,
                acked, failed, ures, onProgress, progress, parsed, uToken,
                ufetched>>
requestVars == <<rpc, method, headers, accessToken, tokenCalls, fetched,
                 received, bodyRead, rres>>
debugVars == <<dpc, timer, timedOut, graphTest, dres>>
restVars == <<requestVars, debugVars>>
graphVars == <<listVars, uploadVars, restVars>>

\* ----------------------------------------------------------- Graph links
\* a link is relative (a path), absolute under GRAPH_BASE_URL, or absolute
\* under another base; page is the page it leads to
NoLink == [base |-> "none", page |-> 0]
PathTo(k) == [base |-> "", page |-> k]
GraphLink(k) == [base |-> "graph", page |-> k]
OtherLink(k) == [base |-> "other", page |-> k]

NoList == [kind |-> "none", items |-> <<>>]

NoUpload == [kind |-> "none", msg |-> ""]

\* no upload has been started
UploadIdle ==
  /\ ucaller = "none"
  /\ size = 0
  /\ upc = "idle"
  /\ route = "none"
  /\ uploadedBytes = 0
  /\ puts = <<>>
  /\ inflight = 0
  /\ acked = 0
  /\ failed = FALSE
  /\ ures = NoUpload
  /\ onProgress = FALSE
  /\ progress = <<>>
  /\ parsed = <<>>
  /\ uToken = ""
  /\ ufetched = <<>>

\* no graphList invocation has been started
ListIdle ==
  /\ server = [k \in 1..MaxPages |-> [value |-> <<>>, next |-> NoLink]]
  /\ maxItems = 0
  /\ items = <<>>
  /\ nextLink = NoLink
  /\ lpc = "idle"
  /\ lres = NoList
  /\ round = 0
  /\ first = NoList
  /\ asked = NoLink

\* no Graph operation has been started
\* what getAccessToken resolves with
AccessTokens == {"t1", "t2"}

\* `Bearer ${accessToken}`
Bearer(t) == <<"Bearer ", t>>

NoHeaders == [h \in {} |-> ""]
NoResponse == [status |-> 0, body |-> ""]
NoResult == [kind |-> "none", value |-> "", msg |-> <<>>]

\* no graphRequest has been started
RequestIdle ==
  /\ rpc = "idle"
  /\ method = "GET"
  /\ headers = NoHeaders
  /\ accessToken = ""
  /\ tokenCalls = 0
  /\ fetched = <<>>
  /\ received = NoResponse
  /\ bodyRead = "none"
  /\ rres = NoResult

NoTest == [status |-> "none", error |-> <<>>]
NoDebug == [graphApiTest |-> NoTest, authenticated |-> FALSE]

\* no debug_info command has been started
DebugIdle ==
  /\ dpc = "idle"
  /\ timer = "off"
  /\ timedOut = FALSE
  /\ graphTest = NoTest
  /\ dres = NoDebug

GraphIdle == UploadIdle /\ ListIdle /\ RequestIdle /\ DebugIdle

\* ------------------------------------------------------------ token cache
EmptyCache == [acct |-> 0, at |-> 0]
CacheOf(t) == [acct |-> 1, at |-> t]

\* cacheContext.tokenCache.serialize(): the cache as the text of the file
Serialize(mem) == <<mem.acct, mem.at>>

\* the text is a complete serialized cache (JSON.parse does not throw)
Parses(data) == Len(data) = 2 /\ data[1] \in {0, 1}

\* cacheContext.tokenCache.deserialize(data): replaces the in-memory cache
Deserialize(data) == [acct |-> data[1], at |-> data[2]]

Absent == [ex |-> FALSE, data |-> <<>>, mode |-> 0]
FileOf(data, mode) == [ex |-> TRUE, data |-> data, mode |-> mode]

\* FileCachePlugin.beforeCacheAccess: the in-memory cache after the hook
beforeCacheAccess(mem) ==
  IF file.ex
    THEN IF file.data # <<>>
           THEN IF Parses(file.data) THEN Deserialize(file.data)
                                     ELSE mem      \* deserialize threw: logged
           ELSE mem
    ELSE mem

\* ----------------------------------------------------------------- results
NoRes == [kind |-> "none", tok |-> 0, msg |-> <<>>]
TokenRes(t) == [kind |-> "token", tok |-> t, msg |-> <<>>]
BoolRes(b) == [kind |-> IF b THEN "true" ELSE "false", tok |-> 0, msg |-> <<>>]
OkRes == [kind |-> "ok", tok |-> 0, msg |-> <<>>]
ErrorRes(m) == [kind |-> "error", tok |-> 0, msg |-> m]

NoClientIdMsg == <<"No client ID configured.">>
NotAuthenticatedMsg ==
  <<"Not authenticated. Please run \"npm run login\" in the myoffice-mcp directory.">>
ReauthenticationMsg(m) ==
  <<"Token acquisition failed: ", m,
    ". Please re-authenticate by running 'npm run login' in the myoffice-mcp directory.">>
LoginFailedMsg(m) == <<m>>

NoSent == [silent |-> 0, device |-> 0]

\* ---------------------------------------------------------------- plugins
PluginOf(f) == IF f = LoginFrame THEN "login" ELSE "tm"
MemOf(f) == IF f = LoginFrame THEN loginMem ELSE tmMem

Idle == [on |-> FALSE, f |-> 0, step |-> "idle", data |-> <<>>]
Job(k, f) == [k |-> k, f |-> f]

Start(whichCopy) ==
  /\ copy = whichCopy
  /\ clientId \in ClientIds
  /\ \/ dirExists = FALSE /\ file = Absent /\ issued = 0
     \/ dirExists = TRUE /\ file = Absent /\ issued = 0
     \/ dirExists = TRUE /\ file = FileOf(Serialize(CacheOf(1)), OwnerOnly)
          /\ issued = 1
  /\ tmp = Absent
  /\ msalInstance = FALSE
  /\ msalClientId = ""
  /\ tmMem = EmptyCache
  /\ loginMem = EmptyCache
  /\ pc = [f \in Frames |-> "idle"]
  /\ op = [f \in Frames |-> "none"]
  /\ res = [f \in Frames |-> NoRes]
  /\ newTok = [f \in Frames |-> 0]
  /\ prevTok = [f \in Frames |-> 0]
  /\ sent = [f \in Frames |-> NoSent]
  /\ wrote = [f \in Frames |-> 0]
  /\ chain = [p \in {"tm", "login"} |-> <<>>]
  /\ microtasks = <<>>
  /\ wr = Idle
  /\ calls = <<>>
  /\ fileAtStart = [f \in Frames |-> "none"]
  /\ answer = [f \in Frames |-> ""]
  /\ intended = [f \in Frames |-> <<>>]
  /\ hadFile = file.ex
  /\ GraphIdle

Init == Start("queued")

InitInPlace == Start("inplace")


\* ------------------------------------------------------ the cache plugin
Without(seq, f) == SelectSeq(seq, LAMBDA g : g # f)

\* an afterCacheAccess that never persists the cache
afterCacheAccessNoWrite(f, cacheHasChanged, q) ==
  /\ microtasks' = Append(q, Job("resume", f))
  /\ UNCHANGED <<chain, wr, calls>>

\* FileCachePlugin.afterCacheAccess called for frame f; q is the microtask
\* queue the calling step leaves behind.
afterCacheAccess(f, cacheHasChanged, q) ==
  IF ~cacheHasChanged
    THEN /\ microtasks' = Append(q, Job("resume", f))
         /\ UNCHANGED <<chain, wr, calls>>
    ELSE /\ calls' = Append(calls, f)
         /\ IF copy = "queued"
              THEN \* this.writeLock = this.writeLock.then(() => writeCache)
                   /\ chain' = [chain EXCEPT ![PluginOf(f)] = Append(@, f)]
                   /\ microtasks' = IF chain[PluginOf(f)] = <<>>
                                      THEN Append(q, Job("write", f))
                                      ELSE q
                   /\ wr' = wr
              ELSE \* the in-place source writes inside the call
                   /\ wr' = [on |-> TRUE, f |-> f, step |-> "mkdir",
                             data |-> <<>>]
                   /\ microtasks' = q
                   /\ chain' = chain

\* the then-callback of the write queue starts writeCache
RunWriteJob ==
  /\ ~wr.on /\ microtasks # <<>> /\ Head(microtasks).k = "write"
  /\ wr' = [on |-> TRUE, f |-> Head(microtasks).f, step |-> "mkdir",
            data |-> <<>>]
  /\ microtasks' = Tail(microtasks)
  /\ UNCHANGED <<envVars, graphVars, fsVars, memVars, frameVars, chain, calls, issued>>

\* existsSync(dir) / mkdirSync(dir), then serialize()
WriteMkdir ==
  /\ wr.on /\ wr.step = "mkdir"
  /\ dirExists' = TRUE
  /\ wr' = [wr EXCEPT !.step = "open", !.data = Serialize(MemOf(wr.f))]
  /\ intended' = [intended EXCEPT ![wr.f] = Serialize(MemOf(wr.f))]
  /\ UNCHANGED <<envVars, graphVars, file, tmp, hadFile, memVars, pc, op, res, newTok,
                 prevTok, sent, wrote, fileAtStart, answer, chain,
                 microtasks, calls, issued>>

\* a writeFileSync without the mode option: the file gets the default 0o644
OpenedWorldReadable(target) ==
  FileOf(<<>>, IF target.ex THEN target.mode ELSE 420)

\* writeFileSync opens its target with O_CREAT|O_TRUNC and mode 0o600;
\* the mode only applies when the file is created
Opened(target) == FileOf(<<>>, IF target.ex THEN target.mode ELSE OwnerOnly)

WriteOpen ==
  /\ wr.on /\ wr.step = "open"
  /\ IF copy = "queued"
       THEN tmp' = Opened(tmp) /\ UNCHANGED <<file, hadFile>>
       ELSE file' = Opened(file) /\ hadFile' = TRUE /\ tmp' = tmp
  /\ wr' = [wr EXCEPT !.step = "data"]
  /\ UNCHANGED <<envVars, graphVars, dirExists, memVars, frameVars, chain, microtasks,
                 calls, issued>>

\* a write that stops after the first piece (one write() call, no loop)
CompleteEarly(written, text) == Len(written) >= 1

\* writeFileSync returns once the whole text is in its target
Complete(written, text) == Len(written) = Len(text)

Extended(target) ==
  [target EXCEPT !.data = Append(@, wr.data[Len(@) + 1])]

\* writeFileSync writes the text piece by piece; the in-place source is
\* done with its write after the last piece
WriteData ==
  /\ wr.on /\ wr.step = "data"
  /\ IF copy = "queued"
       THEN /\ tmp' = Extended(tmp) /\ file' = file
            /\ wr' = IF Complete(tmp'.data, wr.data)
                       THEN [wr EXCEPT !.step = "rename"] ELSE wr
            /\ UNCHANGED <<microtasks, wrote, calls>>
       ELSE /\ file' = Extended(file) /\ tmp' = tmp
            /\ IF Complete(file'.data, wr.data)
                 THEN /\ wr' = Idle
                      /\ wrote' = [wrote EXCEPT ![wr.f] = 1]
                      /\ calls' = Without(calls, wr.f)
                      /\ microtasks' = Append(microtasks, Job("resume", wr.f))
                 ELSE UNCHANGED <<wr, wrote, microtasks, calls>>
  /\ UNCHANGED <<envVars, graphVars, dirExists, hadFile, memVars, pc, op, res, newTok,
                 prevTok, sent, fileAtStart, answer, intended, chain, issued>>

\* renameSync(tempPath, this.cachePath); writeCache returns
WriteRename ==
  /\ wr.on /\ wr.step = "rename"
  /\ file' = tmp
  /\ tmp' = Absent
  /\ hadFile' = TRUE
  /\ wr' = Idle
  /\ wrote' = [wrote EXCEPT ![wr.f] = 1]
  /\ calls' = Without(calls, wr.f)
  /\ microtasks' = Append(microtasks, Job("thenable", wr.f))
  /\ UNCHANGED <<envVars, graphVars, dirExists, memVars, pc, op, res, newTok, prevTok,
                 sent, fileAtStart, answer, intended, chain, issued>>

\* the promise writeCache returned is adopted by the queue's promise
RunThenable ==
  /\ ~wr.on /\ microtasks # <<>> /\ Head(microtasks).k = "thenable"
  /\ microtasks' = Append(Tail(microtasks), Job("resolve", Head(microtasks).f))
  /\ UNCHANGED <<envVars, graphVars, fsVars, memVars, frameVars, chain, wr, calls, issued>>

\* the queue's promise resolves: the frame awaiting it resumes, and the
\* next write chained on it is started
RunResolve ==
  /\ ~wr.on /\ microtasks # <<>> /\ Head(microtasks).k = "resolve"
  /\ LET f == Head(microtasks).f
         p == PluginOf(f)
         rest == Tail(chain[p])
     IN /\ chain' = [chain EXCEPT ![p] = rest]
        /\ microtasks' = Append(Tail(microtasks), Job("resume", f)) \o
                           (IF rest = <<>> THEN <<>>
                                           ELSE <<Job("write", Head(rest))>>)
  /\ UNCHANGED <<envVars, graphVars, fsVars, memVars, frameVars, wr, calls, issued>>

\* ------------------------------------------------------ the token manager
\* getMsalInstance(): the instance is dropped when the client ID changed
\* and created when there is none; without a client ID it throws
InstanceKept == msalInstance /\ msalClientId = clientId
InstanceThrows == ~InstanceKept /\ clientId = ""

getMsalInstance ==
  /\ msalInstance' = ~InstanceThrows
  /\ msalClientId' = IF InstanceKept \/ InstanceThrows THEN msalClientId
                                                         ELSE clientId

\* the in-memory cache of the instance getMsalInstance returns
InstanceMem == IF InstanceKept THEN tmMem ELSE EmptyCache

FileClass ==
  IF ~file.ex THEN "absent"
  ELSE IF Parses(file.data) /\ Deserialize(file.data).acct > 0 THEN "account"
  ELSE "other"

Begin(f, o) ==
  /\ op' = [op EXCEPT ![f] = o]
  /\ newTok' = [newTok EXCEPT ![f] = 0]
  /\ prevTok' = [prevTok EXCEPT ![f] = 0]
  /\ wrote' = [wrote EXCEPT ![f] = 0]
  /\ fileAtStart' = [fileAtStart EXCEPT ![f] = FileClass]
  /\ answer' = [answer EXCEPT ![f] = ""]
  /\ intended' = [intended EXCEPT ![f] = <<>>]

\* getAccessToken, up to the await of getAllAccounts(): the library calls
\* beforeCacheAccess and reads the accounts in a later turn
GetAccessTokenStart(c) ==
  /\ ~wr.on /\ pc[c] = "idle"
  /\ Begin(c, "getAccessToken")
  /\ getMsalInstance
  /\ IF InstanceThrows
       THEN /\ pc' = [pc EXCEPT ![c] = "done"]
            /\ res' = [res EXCEPT ![c] = ErrorRes(NoClientIdMsg)]
            /\ UNCHANGED <<tmMem, microtasks>>
       ELSE /\ tmMem' = beforeCacheAccess(InstanceMem)
            /\ pc' = [pc EXCEPT ![c] = "accounts"]
            /\ microtasks' = Append(microtasks, Job("resume", c))
            /\ res' = res
  /\ UNCHANGED <<envVars, graphVars, fsVars, loginMem, sent, chain, wr, calls, issued>>

Resuming(f, at) ==
  /\ ~wr.on /\ microtasks # <<>>
  /\ Head(microtasks) = Job("resume", f)
  /\ pc[f] = at

\* a getAccessToken that falls back to the device-code flow when it finds
\* no account
NoAccountsInteractive(c) ==
  /\ pc' = [pc EXCEPT ![c] = "awaitUser"]
  /\ res' = res
  /\ microtasks' = Tail(microtasks)
  /\ sent' = [sent EXCEPT ![c].device = 1]

\* accounts.length === 0: throw the "Not authenticated" error
NoAccounts(c) ==
  /\ pc' = [pc EXCEPT ![c] = "done"]
  /\ res' = [res EXCEPT ![c] = ErrorRes(NotAuthenticatedMsg)]
  /\ microtasks' = Tail(microtasks)
  /\ sent' = sent

\* getAllAccounts() has resolved with no account
GetAccessTokenNoAccounts(c) ==
  /\ Resuming(c, "accounts") /\ op[c] = "getAccessToken"
  /\ tmMem.acct = 0
  /\ NoAccounts(c)
  /\ UNCHANGED <<envVars, graphVars, fsVars, memVars, op, newTok, prevTok, wrote,
                 fileAtStart, answer, intended, chain, wr, calls, issued>>

\* getAllAccounts() has resolved with an account; pca.acquireTokenSilent
\* finds the cached access token still valid and returns it without a request
SilentCached(c) ==
  /\ Resuming(c, "accounts") /\ op[c] = "getAccessToken"
  /\ tmMem.acct > 0
  /\ tmMem' = beforeCacheAccess(tmMem)
  /\ prevTok' = [prevTok EXCEPT ![c] = tmMem'.at]
  /\ pc' = [pc EXCEPT ![c] = "done"]
  /\ res' = [res EXCEPT ![c] = TokenRes(tmMem'.at)]
  /\ microtasks' = Tail(microtasks)
  /\ UNCHANGED <<envVars, graphVars, fsVars, msalInstance, msalClientId, loginMem, op,
                 newTok, sent, wrote, fileAtStart, answer, intended, chain, wr, calls, issued>>

\* getAllAccounts() has resolved with an account; pca.acquireTokenSilent
\* finds the cached access token expired and sends the refresh token to the
\* authorization service
SilentRefresh(c) ==
  /\ Resuming(c, "accounts") /\ op[c] = "getAccessToken"
  /\ tmMem.acct > 0
  /\ tmMem' = beforeCacheAccess(tmMem)
  /\ prevTok' = [prevTok EXCEPT ![c] = tmMem'.at]
  /\ sent' = [sent EXCEPT ![c].silent = 1]
  /\ pc' = [pc EXCEPT ![c] = "silentInFlight"]
  /\ microtasks' = Tail(microtasks)
  /\ UNCHANGED <<envVars, graphVars, fsVars, msalInstance, msalClientId, loginMem, op,
                 res, newTok, wrote, fileAtStart, answer, intended, chain, wr, calls, issued>>

\* the authorization service answers the refresh with new tokens
SilentGranted(c) ==
  /\ ~wr.on /\ pc[c] = "silentInFlight"
  /\ issued < MaxTok
  /\ issued' = issued + 1
  /\ newTok' = [newTok EXCEPT ![c] = issued + 1]
  /\ pc' = [pc EXCEPT ![c] = "saving"]
  /\ microtasks' = Append(microtasks, Job("resume", c))
  /\ UNCHANGED <<envVars, graphVars, fsVars, memVars, op, res, prevTok, sent, wrote,
                 fileAtStart, answer, intended, chain, wr, calls>>

\* a catch block that throws without the provider's message
SilentFailedNoMessage(c, errorMessage) ==
  /\ pc' = [pc EXCEPT ![c] = "done"]
  /\ res' = [res EXCEPT ![c] = ErrorRes(<<"Token acquisition failed.">>)]
  /\ UNCHANGED <<fsVars, sent, wrote, queueVars>>

\* a catch block that removes the cache file whose refresh token was rejected
SilentFailedClearing(c, errorMessage) ==
  /\ pc' = [pc EXCEPT ![c] = "done"]
  /\ res' = [res EXCEPT ![c] = ErrorRes(ReauthenticationMsg(errorMessage))]
  /\ file' = Absent
  /\ UNCHANGED <<dirExists, tmp, hadFile, sent, wrote, queueVars>>

\* the catch block of getAccessToken
SilentFailed(c, errorMessage) ==
  /\ pc' = [pc EXCEPT ![c] = "done"]
  /\ res' = [res EXCEPT ![c] = ErrorRes(ReauthenticationMsg(errorMessage))]
  /\ UNCHANGED <<fsVars, sent, wrote, queueVars>>

\* the authorization service rejects the refresh, or cannot be reached
SilentRejected(c) ==
  /\ ~wr.on /\ pc[c] = "silentInFlight"
  /\ \E m \in ProviderErrors :
       answer' = [answer EXCEPT ![c] = m] /\ SilentFailed(c, m)
  /\ UNCHANGED <<envVars, graphVars, memVars, op, newTok, prevTok, fileAtStart, intended,
                 issued>>

\* the library stores the token response (beforeCacheAccess, update,
\* afterCacheAccess with cacheHasChanged)
SaveTokens(f) ==
  /\ Resuming(f, "saving")
  /\ IF f = LoginFrame
       THEN loginMem' = CacheOf(newTok[f]) /\ tmMem' = tmMem
       ELSE tmMem' = CacheOf(newTok[f]) /\ loginMem' = loginMem
  /\ afterCacheAccess(f, TRUE, Tail(microtasks))
  /\ pc' = [pc EXCEPT ![f] = "awaitWrite"]
  /\ UNCHANGED <<envVars, graphVars, fsVars, msalInstance, msalClientId, op, res,
                 ghostVars, issued>>

\* return result.accessToken
GetAccessTokenReturn(c) ==
  /\ Resuming(c, "awaitWrite") /\ c \in Callers
  /\ pc' = [pc EXCEPT ![c] = "done"]
  /\ res' = [res EXCEPT ![c] = TokenRes(newTok[c])]
  /\ microtasks' = Tail(microtasks)
  /\ UNCHANGED <<envVars, graphVars, fsVars, memVars, op, ghostVars, chain, wr, calls,
                 issued>>

\* isAuthenticated, up to the await of getAllAccounts()
IsAuthenticatedStart(c) ==
  /\ ~wr.on /\ pc[c] = "idle"
  /\ Begin(c, "isAuthenticated")
  /\ getMsalInstance
  /\ IF InstanceThrows
       THEN /\ pc' = [pc EXCEPT ![c] = "done"]
            /\ res' = [res EXCEPT ![c] = BoolRes(FALSE)]
            /\ UNCHANGED <<tmMem, microtasks>>
       ELSE /\ tmMem' = beforeCacheAccess(InstanceMem)
            /\ pc' = [pc EXCEPT ![c] = "accounts"]
            /\ microtasks' = Append(microtasks, Job("resume", c))
            /\ res' = res
  /\ UNCHANGED <<envVars, graphVars, fsVars, loginMem, sent, chain, wr, calls, issued>>

\* an isAuthenticated that checks the account by asking for a renewal
IsAuthenticatedRenewing(c) ==
  /\ Resuming(c, "accounts") /\ op[c] = "isAuthenticated"
  /\ pc' = [pc EXCEPT ![c] = "done"]
  /\ res' = [res EXCEPT ![c] = BoolRes(tmMem.acct > 0)]
  /\ sent' = [sent EXCEPT ![c].silent = 1]
  /\ microtasks' = Tail(microtasks)
  /\ UNCHANGED <<envVars, graphVars, fsVars, memVars, op, newTok, prevTok, wrote,
                 fileAtStart, answer, intended, chain, wr, calls, issued>>

\* return accounts.length > 0
IsAuthenticatedReturn(c) ==
  /\ Resuming(c, "accounts") /\ op[c] = "isAuthenticated"
  /\ pc' = [pc EXCEPT ![c] = "done"]
  /\ res' = [res EXCEPT ![c] = BoolRes(tmMem.acct > 0)]
  /\ microtasks' = Tail(microtasks)
  /\ UNCHANGED <<envVars, graphVars, fsVars, memVars, op, ghostVars, chain, wr, calls,
                 issued>>

\* the caller has taken the result of the operation
Forget(f) ==
  /\ ~wr.on /\ pc[f] = "done"
  /\ pc' = [pc EXCEPT ![f] = "idle"]
  /\ op' = [op EXCEPT ![f] = "none"]
  /\ res' = [res EXCEPT ![f] = NoRes]
  /\ newTok' = [newTok EXCEPT ![f] = 0]
  /\ prevTok' = [prevTok EXCEPT ![f] = 0]
  /\ sent' = [sent EXCEPT ![f] = NoSent]
  /\ wrote' = [wrote EXCEPT ![f] = 0]
  /\ fileAtStart' = [fileAtStart EXCEPT ![f] = "none"]
  /\ answer' = [answer EXCEPT ![f] = ""]
  /\ intended' = [intended EXCEPT ![f] = <<>>]
  /\ UNCHANGED <<envVars, graphVars, fsVars, memVars, queueVars, issued>>

\* ---------------------------------------------------- the device-code login
LoginErrors == {"expired_token", "authorization_declined", "network_error"}

\* authenticateWithDeviceCode, up to the await of acquireTokenByDeviceCode:
\* a new instance with an empty cache asks for a device code
LoginStart ==
  /\ ~wr.on /\ pc[LoginFrame] = "idle"
  /\ Begin(LoginFrame, "login")
  /\ IF clientId = ""
       THEN /\ pc' = [pc EXCEPT ![LoginFrame] = "done"]
            /\ res' = [res EXCEPT ![LoginFrame] = ErrorRes(NoClientIdMsg)]
            /\ UNCHANGED <<loginMem, sent>>
       ELSE /\ loginMem' = EmptyCache
            /\ sent' = [sent EXCEPT ![LoginFrame].device = 1]
            /\ pc' = [pc EXCEPT ![LoginFrame] = "awaitUser"]
            /\ res' = res
  /\ UNCHANGED <<envVars, graphVars, fsVars, tmVars, queueVars, issued>>

\* the user signs in and the service grants the tokens
LoginGranted ==
  /\ ~wr.on /\ pc[LoginFrame] = "awaitUser"
  /\ issued < MaxTok
  /\ issued' = issued + 1
  /\ newTok' = [newTok EXCEPT ![LoginFrame] = issued + 1]
  /\ pc' = [pc EXCEPT ![LoginFrame] = "saving"]
  /\ microtasks' = Append(microtasks, Job("resume", LoginFrame))
  /\ UNCHANGED <<envVars, graphVars, fsVars, memVars, op, res, prevTok, sent, wrote,
                 fileAtStart, answer, intended, chain, wr, calls>>

\* a failure path that empties the cache file, as clearTokenCache does with
\* the legacy token file
LoginFailedTruncating(errorMessage) ==
  /\ pc' = [pc EXCEPT ![LoginFrame] = "done"]
  /\ res' = [res EXCEPT ![LoginFrame] = ErrorRes(LoginFailedMsg(errorMessage))]
  /\ file' = FileOf(<<>>, IF file.ex THEN file.mode ELSE OwnerOnly)
  /\ UNCHANGED <<dirExists, tmp, hadFile, wrote, queueVars>>

\* acquireTokenByDeviceCode rejects: authenticateWithDeviceCode throws
LoginFailed(errorMessage) ==
  /\ pc' = [pc EXCEPT ![LoginFrame] = "done"]
  /\ res' = [res EXCEPT ![LoginFrame] = ErrorRes(LoginFailedMsg(errorMessage))]
  /\ UNCHANGED <<fsVars, wrote, queueVars>>

\* the code expires or consent is denied
LoginRejected ==
  /\ ~wr.on /\ pc[LoginFrame] = "awaitUser"
  /\ \E m \in LoginErrors :
       answer' = [answer EXCEPT ![LoginFrame] = m] /\ LoginFailed(m)
  /\ UNCHANGED <<envVars, graphVars, memVars, op, newTok, prevTok, sent, fileAtStart,
                 intended, issued>>

\* result.accessToken is there: authenticateWithDeviceCode returns
LoginReturn ==
  /\ Resuming(LoginFrame, "awaitWrite")
  /\ pc' = [pc EXCEPT ![LoginFrame] = "done"]
  /\ res' = [res EXCEPT ![LoginFrame] =
               IF newTok[LoginFrame] = 0
                 THEN ErrorRes(<<"Failed to acquire access token">>)
                 ELSE OkRes]
  /\ microtasks' = Tail(microtasks)
  /\ UNCHANGED <<envVars, graphVars, fsVars, memVars, op, ghostVars, chain, wr, calls,
                 issued>>

\* ------------------------------------------------------------ environment
Quiet == \A f \in Frames : pc[f] = "idle"

\* the stored configuration or M365_CLIENT_ID changes between operations
SetClientId ==
  /\ ~wr.on /\ Quiet
  /\ \E v \in ClientIds : v # clientId /\ clientId' = v
  /\ UNCHANGED <<copy, graphVars, fsVars, memVars, frameVars, queueVars, issued>>

\* the operator clears the cache file between operations
ClearCacheFile ==
  /\ ~wr.on /\ Quiet /\ file.ex
  /\ file' = Absent
  /\ UNCHANGED <<envVars, graphVars, dirExists, tmp, hadFile, memVars, frameVars,
                 queueVars, issued>>

Fresh ==
  /\ msalInstance' = FALSE
  /\ msalClientId' = ""
  /\ tmMem' = EmptyCache
  /\ loginMem' = EmptyCache
  /\ pc' = [f \in Frames |-> "idle"]
  /\ op' = [f \in Frames |-> "none"]
  /\ res' = [f \in Frames |-> NoRes]
  /\ newTok' = [f \in Frames |-> 0]
  /\ prevTok' = [f \in Frames |-> 0]
  /\ sent' = [f \in Frames |-> NoSent]
  /\ wrote' = [f \in Frames |-> 0]
  /\ fileAtStart' = [f \in Frames |-> "none"]
  /\ answer' = [f \in Frames |-> ""]
  /\ intended' = [f \in Frames |-> <<>>]
  /\ chain' = [p \in {"tm", "login"} |-> <<>>]
  /\ microtasks' = <<>>
  /\ wr' = Idle
  /\ calls' = <<>>
  /\ hadFile' = file.ex

\* the process exits between two turns and a new one starts
ExitProcess ==
  /\ ~wr.on
  /\ msalInstance \/ \E f \in Frames : pc[f] # "idle"
  /\ Fresh
  /\ UNCHANGED <<envVars, graphVars, dirExists, file, tmp, issued>>

\* the process is killed in the middle of a cache write
Crash ==
  /\ wr.on
  /\ Fresh
  /\ UNCHANGED <<envVars, graphVars, dirExists, file, tmp, issued>>

NextCommon ==
  \/ \E c \in Callers : GetAccessTokenStart(c)
  \/ \E c \in Callers : GetAccessTokenNoAccounts(c)
  \/ \E c \in Callers : SilentCached(c)
  \/ \E c \in Callers : SilentRefresh(c)
  \/ \E c \in Callers : SilentGranted(c)
  \/ \E c \in Callers : SilentRejected(c)
  \/ \E f \in Frames : SaveTokens(f)
  \/ \E c \in Callers : GetAccessTokenReturn(c)
  \/ \E c \in Callers : IsAuthenticatedStart(c)
  \/ \E c \in Callers : IsAuthenticatedReturn(c)
  \/ \E f \in Frames : Forget(f)
  \/ LoginStart
  \/ LoginGranted
  \/ LoginRejected
  \/ LoginReturn
  \/ WriteMkdir
  \/ WriteOpen
  \/ WriteData
  \/ SetClientId
  \/ ClearCacheFile
  \/ ExitProcess

Next ==
  \/ NextCommon
  \/ RunWriteJob
  \/ WriteRename
  \/ RunThenable
  \/ RunResolve

Spec == Init /\ [][Next]_vars

SpecInPlace == InitInPlace /\ [][NextCommon]_vars

NextCrash == Next \/ Crash

SpecCrash == Init /\ [][NextCrash]_vars

NextInPlaceCrash == NextCommon \/ Crash

SpecInPlaceCrash == InitInPlace /\ [][NextInPlaceCrash]_vars

\* ------------------------------------------------- failing cache writes
\* how writeCache ended in its catch: what threw, and what became of the
\* temp file
Caught(what, how) ==
  [on |-> FALSE, f |-> 0, step |-> "caught", data |-> <<what, how>>]

\* if (existsSync(tempPath)) unlinkSync(tempPath), in a try whose catch
\* ignores the error
CleanedUp(how) ==
  CASE how = "none" -> ~tmp.ex /\ tmp' = tmp
    [] how = "removed" -> tmp.ex /\ tmp' = Absent
    [] how = "unlink failed" -> tmp.ex /\ tmp' = tmp

\* a writeCache without its catch: the promise of the queue is rejected
\* and nothing that was chained on it runs
WriteUncaught(what) ==
  /\ \E how \in {"none", "removed", "unlink failed"} :
       CleanedUp(how) /\ wr' = Caught(what, how)
  /\ calls' = Without(calls, wr.f)
  /\ UNCHANGED <<envVars, graphVars, dirExists, file, hadFile, memVars,
                 frameVars, chain, microtasks, issued>>

\* the catch of writeCache: the error is logged, the temp file is cleaned
\* up and writeCache returns
WriteCaught(what) ==
  /\ \E how \in {"none", "removed", "unlink failed"} :
       CleanedUp(how) /\ wr' = Caught(what, how)
  /\ calls' = Without(calls, wr.f)
  /\ microtasks' = Append(microtasks, Job("thenable", wr.f))
  /\ UNCHANGED <<envVars, graphVars, dirExists, file, hadFile, memVars,
                 frameVars, chain, issued>>

\* mkdirSync throws
WriteMkdirFails ==
  /\ wr.on /\ wr.step = "mkdir" /\ copy = "queued" /\ ~dirExists
  /\ WriteCaught("mkdir")

\* writeFileSync throws: the temp file is not opened, or holds a part of
\* the text
WriteTempFails ==
  /\ wr.on /\ wr.step \in {"open", "data"} /\ copy = "queued"
  /\ WriteCaught("write")

\* renameSync throws
WriteRenameFails ==
  /\ wr.on /\ wr.step = "rename" /\ copy = "queued"
  /\ WriteCaught("rename")

\* the token manager's callers, the login and the cache writes, which may
\* fail
NextFault ==
  \/ \E c \in Callers : GetAccessTokenStart(c)
  \/ \E c \in Callers : GetAccessTokenNoAccounts(c)
  \/ \E c \in Callers : SilentCached(c)
  \/ \E c \in Callers : SilentRefresh(c)
  \/ \E c \in Callers : SilentGranted(c)
  \/ \E c \in Callers : SilentRejected(c)
  \/ \E f \in Frames : SaveTokens(f)
  \/ \E c \in Callers : GetAccessTokenReturn(c)
  \/ \E f \in Frames : Forget(f)
  \/ LoginStart
  \/ LoginGranted
  \/ LoginRejected
  \/ LoginReturn
  \/ RunWriteJob
  \/ WriteMkdir
  \/ WriteOpen
  \/ WriteData
  \/ WriteRename
  \/ RunThenable
  \/ RunResolve
  \/ WriteMkdirFails
  \/ WriteTempFails
  \/ WriteRenameFails

SpecFault == Init /\ [][NextFault]_vars

\* ------------------------------------------------------- the Graph client
\* With the token manager at rest: getAccessToken is taken by its outcome,
\* a token or an error.
AuthAtRest ==
  /\ copy = "queued" /\ clientId = "app"
  /\ dirExists = FALSE /\ file = Absent /\ tmp = Absent /\ issued = 0
  /\ msalInstance = FALSE /\ msalClientId = ""
  /\ tmMem = EmptyCache /\ loginMem = EmptyCache
  /\ pc = [f \in Frames |-> "idle"]
  /\ op = [f \in Frames |-> "none"]
  /\ res = [f \in Frames |-> NoRes]
  /\ newTok = [f \in Frames |-> 0]
  /\ prevTok = [f \in Frames |-> 0]
  /\ sent = [f \in Frames |-> NoSent]
  /\ wrote = [f \in Frames |-> 0]
  /\ chain = [p \in {"tm", "login"} |-> <<>>]
  /\ microtasks = <<>>
  /\ wr = Idle
  /\ calls = <<>>
  /\ fileAtStart = [f \in Frames |-> "none"]
  /\ answer = [f \in Frames |-> ""]
  /\ intended = [f \in Frames |-> <<>>]
  /\ hadFile = FALSE

\* the items of page k when it holds n of them
PageItems(k, n) == [j \in 1..n |-> 10 * k + j]

Links == {NoLink} \cup {GraphLink(k) : k \in 1..MaxPages} \cup {OtherLink(1)}

\* the fixture servers: each page has up to MaxPageLen items and carries
\* no nextLink, one to a page of the fixture, or one under another base
Servers ==
  { f \in [1..MaxPages -> [len : 0..MaxPageLen, next : Links]] : TRUE }

ServerOf(f) ==
  [k \in 1..MaxPages |-> [value |-> PageItems(k, f[k].len), next |-> f[k].next]]

\* a slice that ignores its end
SliceAll(seq, n) == seq

\* items.slice(0, n) for n >= 0
Slice(seq, n) == SubSeq(seq, 1, IF n < Len(seq) THEN n ELSE Len(seq))

\* items.unshift(...response.value)
PushedFront(acc, value) == value \o acc

\* items.push(...response.value)
Pushed(acc, value) == acc \o value

\* nextLink.startsWith('http') ? nextLink.replace(GRAPH_BASE_URL, '') : nextLink
UrlOf(link) == IF link.base = "graph" THEN PathTo(link.page) ELSE link

\* `${GRAPH_BASE_URL}${path}` is a page of the server only for a path
Reaches(url) == url.base = ""

\* a loop that follows the cursor to its end
ContinuesPastBound(link, acc) == link # NoLink

\* while (nextLink && items.length < maxItems)
Continues(link, acc) == link # NoLink /\ Len(acc) < maxItems

\* an items array that outlives the invocation
StartItemsLeaked == items

\* const items: T[] = []
StartItems == <<>>

\* the loop test, then graphRequest up to its await of getAccessToken, or
\* return items.slice(0, maxItems)
ListLoop(link, acc) ==
  IF Continues(link, acc)
    THEN lpc' = "token" /\ lres' = lres
    ELSE lpc' = "done" /\ lres' = [kind |-> "items", items |-> Slice(acc, maxItems)]

\* graphList is called
ListStart ==
  /\ lpc = "idle" /\ round < 2
  /\ round' = round + 1
  /\ items' = StartItems
  /\ nextLink' = PathTo(1)
  /\ asked' = NoLink
  /\ ListLoop(PathTo(1), StartItems)
  /\ UNCHANGED <<authVars, uploadVars, restVars, server, maxItems, first>>

\* getAccessToken resolves: graphRequest calls fetch
ListToken ==
  /\ lpc = "token"
  /\ asked' = UrlOf(nextLink)
  /\ lpc' = "fetch"
  /\ UNCHANGED <<authVars, uploadVars, restVars, server, maxItems, items, nextLink, lres, round,
                 first>>

\* getAccessToken rejects: graphRequest and graphList reject
ListTokenFails ==
  /\ lpc = "token"
  /\ lpc' = "done"
  /\ lres' = [kind |-> "error", items |-> <<>>]
  /\ UNCHANGED <<authVars, uploadVars, restVars, server, maxItems, items, nextLink, round, first,
                 asked>>

\* the server answers with the page: push, take the nextLink, loop
ListPage ==
  /\ lpc = "fetch" /\ Reaches(UrlOf(nextLink))
  /\ LET response == server[UrlOf(nextLink).page] IN
       /\ items' = Pushed(items, response.value)
       /\ nextLink' = response.next
       /\ ListLoop(response.next, Pushed(items, response.value))
  /\ UNCHANGED <<authVars, uploadVars, restVars, server, maxItems, round, first, asked>>

\* the server answers a malformed URL with an error status
ListNotFound ==
  /\ lpc = "fetch" /\ ~Reaches(UrlOf(nextLink))
  /\ lpc' = "done"
  /\ lres' = [kind |-> "error", items |-> <<>>]
  /\ UNCHANGED <<authVars, uploadVars, restVars, server, maxItems, items, nextLink, round, first,
                 asked>>

\* the caller takes the result; the locals of the invocation are gone
ListForget ==
  /\ lpc = "done" /\ round < 2
  /\ lpc' = "idle"
  /\ first' = lres
  /\ lres' = NoList
  /\ UNCHANGED <<authVars, uploadVars, restVars, server, maxItems, items, nextLink, round, asked>>

InitList ==
  /\ AuthAtRest
  /\ UploadIdle /\ RequestIdle /\ DebugIdle
  /\ \E f \in Servers : server = ServerOf(f)
  /\ maxItems \in 0..MaxItemsArg
  /\ items = <<>>
  /\ nextLink = NoLink
  /\ lpc = "idle"
  /\ lres = NoList
  /\ round = 0
  /\ first = NoList
  /\ asked = NoLink

NextList ==
  \/ ListStart
  \/ ListToken
  \/ ListTokenFails
  \/ ListPage
  \/ ListNotFound
  \/ ListForget

SpecList == InitList /\ [][NextList]_vars

\* the server and the token manager answer every request in the end
SpecListFair == SpecList /\ WF_vars(ListToken) /\ WF_vars(ListPage)
                  /\ WF_vars(ListNotFound) /\ WF_vars(ListStart)
                  /\ WF_vars(ListForget)

\* ---------------------------------------------------------------- uploads
UploadCallers == {"onedrive", "planner"}

\* payload lengths around the routing threshold and the chunk boundaries
Sizes ==
  {0, 1, MAX_SIMPLE_UPLOAD - 1, MAX_SIMPLE_UPLOAD, MAX_SIMPLE_UPLOAD + 1}
    \cup {k * CHUNK_SIZE + d : k \in 1..MaxChunks, d \in {-1, 0, 1}}

Metadata == [kind |-> "metadata", msg |-> ""]
UploadError(m) == [kind |-> "error", msg |-> m]

\* content.length <= MAX_SIMPLE_UPLOAD
RoutesSimple(n) == n <= MAX_SIMPLE_UPLOAD

\* the if of uploadFile and uploadAndAttach: graphUpload or graphUploadLarge,
\* each up to its await of getAccessToken
Routed(n) ==
  IF RoutesSimple(n)
    THEN route' = "simple" /\ upc' = "simpleToken"
    ELSE route' = "large" /\ upc' = "largeToken"

\* a chunk that ends one byte early
ChunkEndShort(from) ==
  IF from + CHUNK_SIZE - 1 < size THEN from + CHUNK_SIZE - 1 ELSE size

\* Math.min(uploadedBytes + CHUNK_SIZE, fileSize)
ChunkEnd(from) == IF from + CHUNK_SIZE < size THEN from + CHUNK_SIZE ELSE size

\* `bytes ${uploadedBytes}-${chunkEnd - 1}/${fileSize}`
ContentRange(from, to) == [first |-> from, last |-> to - 1, total |-> size]

\* an offset that sends the last byte of the chunk again
NextOffsetOverlapping(chunkEnd) == chunkEnd - 1

\* uploadedBytes = chunkEnd
NextOffset(chunkEnd) == chunkEnd

\* the operation ends for its caller: uploadAndAttach goes on to attach
\* the uploaded file, an error is thrown through
Finish(result) ==
  IF ucaller = "planner" /\ result.kind = "metadata"
    THEN upc' = "attach" /\ ures' = ures
    ELSE upc' = "done" /\ ures' = result

\* the headers graphUpload and the session request of graphUploadLarge pass
\* to fetch
UploadHeaders(t, contentType) ==
  [h \in {"Authorization", "Content-Type"} |->
     IF h = "Authorization" THEN Bearer(t) ELSE <<contentType>>]

\* the headers of a chunk PUT
ChunkHeaders(range) ==
  [h \in {"Content-Length", "Content-Range"} |->
     IF h = "Content-Length" THEN <<range.last - range.first + 1>>
     ELSE <<"bytes ", range.first, "-", range.last, "/", range.total>>]

\* a loop that is entered once more at the end of the payload
LoopsInclusive(from) == from <= size

\* while (uploadedBytes < fileSize)
Loops(from) == from < size

\* a return after the first chunk
FinalFirst(uploaded) == uploaded >= 1

\* if (uploadedBytes >= fileSize)
Final(uploaded) == uploaded >= size

\* a callback called before uploadedBytes is set
ReportedStale(before, after) == <<before, size>>

\* onProgress(uploadedBytes, fileSize)
Reported(before, after) == <<after, size>>

\* the while loop of graphUploadLarge at offset from, with fl PUTs not yet
\* answered: the next chunk is PUT, or the loop is left
LargeLoop(from, fl) ==
  IF Loops(from)
    THEN /\ puts' = Append(puts, ContentRange(from, ChunkEnd(from)))
         /\ ufetched' = Append(ufetched,
              [call |-> "chunk",
               headers |-> ChunkHeaders(ContentRange(from, ChunkEnd(from)))])
         /\ inflight' = fl + 1
         /\ upc' = "chunk" /\ ures' = ures
    ELSE /\ puts' = puts /\ inflight' = fl /\ ufetched' = ufetched
         /\ Finish(UploadError("Upload completed but no response received"))

\* uploadFile is called with a file of n bytes
UploadFileStart ==
  /\ upc = "idle" /\ rpc = "idle"
  /\ \E n \in Sizes : size' = n /\ Routed(n)
  /\ ucaller' = "onedrive"
  /\ UNCHANGED <<authVars, listVars, restVars, uploadedBytes, puts, inflight,
                 acked, failed, ures, onProgress, progress, parsed, uToken,
                 ufetched>>

\* uploadAndAttach is called: the task, the plan and the drive are asked for
UploadAndAttachStart ==
  /\ upc = "idle" /\ rpc = "idle"
  /\ ucaller' = "planner"
  /\ upc' = "lookups"
  /\ UNCHANGED <<authVars, listVars, restVars, size, route, uploadedBytes,
                 puts, inflight, acked, failed, ures, onProgress, progress,
                 parsed, uToken, ufetched>>

\* the three requests are answered: the file of n bytes is read and routed
LookupsDone ==
  /\ upc = "lookups"
  /\ \E n \in Sizes : size' = n /\ Routed(n)
  /\ UNCHANGED <<authVars, listVars, restVars, ucaller, uploadedBytes, puts,
                 inflight, acked, failed, ures, onProgress, progress, parsed,
                 uToken, ufetched>>

\* one of the three requests fails: uploadAndAttach throws
LookupsFail ==
  /\ upc = "lookups"
  /\ upc' = "done"
  /\ ures' = UploadError("Graph API error")
  /\ UNCHANGED <<authVars, listVars, restVars, ucaller, size, route,
                 uploadedBytes, puts, inflight, acked, failed, onProgress,
                 progress, parsed, uToken, ufetched>>

\* graphUploadLarge is called on its own with a payload of n bytes, with or
\* without a progress callback
UploadLargeStart ==
  /\ upc = "idle" /\ rpc = "idle"
  /\ \E n \in Sizes : size' = n
  /\ \E cb \in BOOLEAN : onProgress' = cb
  /\ ucaller' = "direct"
  /\ route' = "large"
  /\ upc' = "largeToken"
  /\ UNCHANGED <<authVars, listVars, restVars, uploadedBytes, puts, inflight,
                 acked, failed, ures, progress, parsed, uToken, ufetched>>

\* getAccessToken rejects: the upload function throws
UploadTokenFails ==
  /\ upc \in {"simpleToken", "largeToken"}
  /\ Finish(UploadError("Not authenticated"))
  /\ UNCHANGED <<authVars, listVars, restVars, ucaller, size, route,
                 uploadedBytes, puts, inflight, acked, failed, onProgress,
                 progress, parsed, uToken, ufetched>>

\* graphUpload: getAccessToken resolves, the payload is PUT in one request
SimplePut ==
  /\ upc = "simpleToken"
  /\ upc' = "simplePut"
  /\ \E t \in AccessTokens :
       /\ uToken' = t
       /\ ufetched' = Append(ufetched,
            [call |-> "simple",
             headers |-> UploadHeaders(t, "application/octet-stream")])
  /\ UNCHANGED <<authVars, listVars, restVars, ucaller, size, route,
                 uploadedBytes, puts, inflight, acked, failed, ures,
                 onProgress, progress, parsed>>

\* graphUpload: the response is ok, return response.json()
SimpleOk ==
  /\ upc = "simplePut"
  /\ Finish(Metadata)
  /\ UNCHANGED <<authVars, listVars, restVars, ucaller, size, route,
                 uploadedBytes, puts, inflight, acked, failed, onProgress,
                 progress, parsed, uToken, ufetched>>

\* graphUpload: !response.ok
SimpleFails ==
  /\ upc = "simplePut"
  /\ failed' = TRUE
  /\ Finish(UploadError("Graph API error"))
  /\ UNCHANGED <<authVars, listVars, restVars, ucaller, size, route,
                 uploadedBytes, puts, inflight, acked, onProgress, progress,
                 parsed, uToken, ufetched>>

\* graphUploadLarge: getAccessToken resolves, createUploadSession is POSTed
SessionPost ==
  /\ upc = "largeToken"
  /\ upc' = "session"
  /\ uploadedBytes' = 0
  /\ \E t \in AccessTokens :
       /\ uToken' = t
       /\ ufetched' = Append(ufetched,
            [call |-> "session",
             headers |-> UploadHeaders(t, "application/json")])
  /\ UNCHANGED <<authVars, listVars, restVars, ucaller, size, route, puts,
                 inflight, acked, failed, ures, onProgress, progress, parsed>>

\* the session is created: uploadedBytes = 0 and the loop is entered
SessionOk ==
  /\ upc = "session"
  /\ LargeLoop(0, inflight)
  /\ UNCHANGED <<authVars, listVars, restVars, ucaller, size, route,
                 uploadedBytes, acked, failed, onProgress, progress, parsed,
                 uToken>>

\* !sessionResponse.ok
SessionFails ==
  /\ upc = "session"
  /\ failed' = TRUE
  /\ Finish(UploadError("Failed to create upload session"))
  /\ UNCHANGED <<authVars, listVars, restVars, ucaller, size, route,
                 uploadedBytes, puts, inflight, acked, onProgress, progress,
                 parsed, uToken, ufetched>>

\* a chunk answered with an error that is PUT again
ChunkFailsRetrying ==
  /\ upc = "chunk"
  /\ failed' = TRUE
  /\ LargeLoop(uploadedBytes, inflight - 1)
  /\ UNCHANGED <<authVars, listVars, restVars, ucaller, size, route,
                 uploadedBytes, acked, onProgress, progress, parsed, uToken>>

\* !chunkResponse.ok
ChunkFails ==
  /\ upc = "chunk"
  /\ failed' = TRUE
  /\ inflight' = inflight - 1
  /\ Finish(UploadError("Upload chunk failed"))
  /\ UNCHANGED <<authVars, listVars, restVars, ucaller, size, route,
                 uploadedBytes, puts, acked, onProgress, progress, parsed,
                 uToken, ufetched>>

\* the chunk is answered with success: the offset advances, the callback is
\* called, and the item is returned after the last chunk or the next chunk
\* is PUT
ChunkOk ==
  /\ upc = "chunk"
  /\ acked' = acked + 1
  /\ LET chunkEnd == puts[Len(puts)].last + 1 IN
       /\ uploadedBytes' = NextOffset(chunkEnd)
       /\ progress' = IF onProgress
                        THEN Append(progress,
                                    Reported(uploadedBytes, NextOffset(chunkEnd)))
                        ELSE progress
       /\ IF Final(NextOffset(chunkEnd))
            THEN /\ Finish(Metadata)
                 /\ parsed' = Append(parsed, Len(puts))
                 /\ inflight' = inflight - 1 /\ puts' = puts
                 /\ ufetched' = ufetched
            ELSE /\ LargeLoop(NextOffset(chunkEnd), inflight - 1)
                 /\ parsed' = parsed
  /\ UNCHANGED <<authVars, listVars, restVars, ucaller, size, route, failed,
                 onProgress, uToken>>

\* addPlannerTaskReference is answered: uploadAndAttach returns or throws
AttachDone ==
  /\ upc = "attach"
  /\ upc' = "done"
  /\ \E r \in {Metadata, UploadError("Graph API error")} : ures' = r
  /\ UNCHANGED <<authVars, listVars, restVars, ucaller, size, route,
                 uploadedBytes, puts, inflight, acked, failed, onProgress,
                 progress, parsed, uToken, ufetched>>

\* the caller takes the result
UploadForget ==
  /\ upc = "done"
  /\ ucaller' = "none"
  /\ size' = 0
  /\ upc' = "idle"
  /\ route' = "none"
  /\ uploadedBytes' = 0
  /\ puts' = <<>>
  /\ inflight' = 0
  /\ acked' = 0
  /\ failed' = FALSE
  /\ ures' = NoUpload
  /\ onProgress' = FALSE
  /\ progress' = <<>>
  /\ parsed' = <<>>
  /\ uToken' = ""
  /\ ufetched' = <<>>
  /\ UNCHANGED <<authVars, listVars, restVars>>

InitUpload == AuthAtRest /\ ListIdle /\ RequestIdle /\ DebugIdle /\ UploadIdle

NextUpload ==
  \/ UploadFileStart
  \/ UploadAndAttachStart
  \/ LookupsDone
  \/ LookupsFail
  \/ UploadLargeStart
  \/ UploadTokenFails
  \/ SimplePut
  \/ SimpleOk
  \/ SimpleFails
  \/ SessionPost
  \/ SessionOk
  \/ SessionFails
  \/ ChunkFails
  \/ ChunkOk
  \/ AttachDone
  \/ UploadForget

SpecUpload == InitUpload /\ [][NextUpload]_vars

\* ----------------------------------------------------------- graphRequest
Methods == {"GET", "POST", "PATCH", "DELETE"}

\* the headers the callers pass: none, or the If-Match of the planner
CallerHeaders == {NoHeaders, [h \in {"If-Match"} |-> <<"etag">>]}

\* { Authorization, 'Content-Type', ...headers }: a later key replaces an
\* earlier one
Spread(own, extra) ==
  [h \in DOMAIN own \cup DOMAIN extra |->
     IF h \in DOMAIN extra THEN extra[h] ELSE own[h]]

\* caller headers that are passed instead of the defaults
RequestHeadersReplaced(t, extra) ==
  IF extra = NoHeaders
    THEN [h \in {"Authorization", "Content-Type"} |->
            IF h = "Authorization" THEN Bearer(t)
            ELSE <<"application/json">>]
    ELSE extra

\* the headers graphRequest passes to fetch
RequestHeaders(t, extra) ==
  Spread([h \in {"Authorization", "Content-Type"} |->
            IF h = "Authorization" THEN Bearer(t)
            ELSE <<"application/json">>],
         extra)

Statuses == {200, 201, 202, 204, 299, 300, 304, 400, 401, 404, 429, 500, 503}

\* response.ok
Ok(status) == status >= 200 /\ status <= 299

\* response bodies: no text, text that is no JSON, and JSON texts
Bodies ==
  {"", "Bad Gateway", "null", "{}", "{\"value\":1}", "{\"error\":\"denied\"}",
   "{\"error\":{}}", "{\"error\":{\"message\":\"\"}}",
   "{\"error\":{\"message\":\"Access denied\"}}"}

\* JSON.parse throws a SyntaxError on these
Unparsable(text) == text \in {"", "Bad Gateway"}

\* errorJson.error?.message of the parsed text: undefined is "", and reading
\* .error of null throws
ErrorField(text) ==
  CASE text = "null" -> [throws |-> TRUE, message |-> ""]
    [] text = "{\"error\":{\"message\":\"Access denied\"}}" ->
         [throws |-> FALSE, message |-> "Access denied"]
    [] OTHER -> [throws |-> FALSE, message |-> ""]

\* the raw text whatever the body holds
ErrorMessageRaw(text) == text

\* try { errorJson.error?.message || errorText } catch { errorText }
ErrorMessage(text) ==
  IF Unparsable(text) \/ ErrorField(text).throws \/ ErrorField(text).message = ""
    THEN text
    ELSE ErrorField(text).message

\* new Error(`Graph API error (${response.status}): ${errorMessage}`)
GraphApiError(status, errorMessage) ==
  [kind |-> "error", value |-> "",
   msg |-> <<"Graph API error (", status, "): ", errorMessage>>]

\* an error thrown by something else than the status test
Thrown(m) == [kind |-> "error", value |-> "", msg |-> <<m>>]

\* {} as T
EmptyValue == [kind |-> "value", value |-> "{}", msg |-> <<>>]

\* the value JSON.parse gives for a text
Parsed(text) == [kind |-> "value", value |-> text, msg |-> <<>>]

\* a test that leaves 202 to the JSON parser
EmptyBodyStatusNoContentOnly(status) == status = 204

\* response.status === 204 || response.status === 202
EmptyBodyStatus(status) == status = 204 \/ status = 202

\* what graphRequest does with the response: how it reads the body and what
\* it ends with
Outcome(status, body) ==
  IF ~Ok(status)
    THEN [read |-> "text", res |-> GraphApiError(status, ErrorMessage(body))]
    ELSE IF EmptyBodyStatus(status)
      THEN [read |-> "none", res |-> EmptyValue]
      ELSE [read |-> "json",
            res |-> IF Unparsable(body) THEN Thrown("SyntaxError")
                    ELSE Parsed(body)]

\* graphRequest is called, up to its await of getAccessToken
Called(m, h) ==
  /\ rpc' = "token"
  /\ method' = m
  /\ headers' = h
  /\ tokenCalls' = tokenCalls + 1
  /\ UNCHANGED <<accessToken, fetched, received, bodyRead, rres>>

\* a tool calls graphRequest
RequestStart ==
  /\ rpc = "idle" /\ dpc = "idle" /\ upc = "idle"
  /\ \E m \in Methods, h \in CallerHeaders : Called(m, h)
  /\ UNCHANGED <<authVars, listVars, uploadVars, debugVars>>

\* getAccessToken resolves: fetch is called
RequestToken ==
  /\ rpc = "token"
  /\ \E t \in AccessTokens :
       /\ accessToken' = t
       /\ fetched' = Append(fetched, [method |-> method,
                                      headers |-> RequestHeaders(t, headers)])
  /\ rpc' = "fetch"
  /\ UNCHANGED <<authVars, listVars, uploadVars, debugVars, method, headers,
                 tokenCalls, received, bodyRead, rres>>

\* getAccessToken rejects: graphRequest rejects
RequestTokenFails ==
  /\ rpc = "token"
  /\ rpc' = "done"
  /\ rres' = Thrown("Not authenticated")
  /\ UNCHANGED <<authVars, listVars, uploadVars, debugVars, method, headers,
                 accessToken, tokenCalls, fetched, received, bodyRead>>

\* fetch rejects (no response)
RequestFetchFails ==
  /\ rpc = "fetch"
  /\ rpc' = "done"
  /\ rres' = Thrown("fetch failed")
  /\ UNCHANGED <<authVars, listVars, uploadVars, debugVars, method, headers,
                 accessToken, tokenCalls, fetched, received, bodyRead>>

\* a response that is fetched again when the status is not a success
RequestResponseRefetching ==
  /\ rpc = "fetch"
  /\ \E status \in Statuses, body \in Bodies :
       /\ received' = [status |-> status, body |-> body]
       /\ IF Ok(status)
            THEN /\ bodyRead' = Outcome(status, body).read
                 /\ rres' = Outcome(status, body).res
                 /\ rpc' = "done" /\ fetched' = fetched
            ELSE /\ fetched' = Append(fetched, fetched[Len(fetched)])
                 /\ UNCHANGED <<bodyRead, rres, rpc>>
  /\ UNCHANGED <<authVars, listVars, uploadVars, debugVars, method, headers,
                 accessToken, tokenCalls>>

\* the response arrives: an error is thrown, {} is returned or the body is
\* parsed
RequestResponse ==
  /\ rpc = "fetch"
  /\ \E status \in Statuses, body \in Bodies :
       /\ received' = [status |-> status, body |-> body]
       /\ bodyRead' = Outcome(status, body).read
       /\ rres' = Outcome(status, body).res
  /\ rpc' = "done"
  /\ UNCHANGED <<authVars, listVars, uploadVars, debugVars, method, headers,
                 accessToken, tokenCalls, fetched>>

\* the caller takes the result; the locals of the invocation are gone
RequestForget ==
  /\ rpc = "done" /\ dpc = "idle"
  /\ rpc' = "idle"
  /\ method' = "GET"
  /\ headers' = NoHeaders
  /\ accessToken' = ""
  /\ tokenCalls' = 0
  /\ fetched' = <<>>
  /\ received' = NoResponse
  /\ bodyRead' = "none"
  /\ rres' = NoResult
  /\ UNCHANGED <<authVars, listVars, uploadVars, debugVars>>

InitRequest == AuthAtRest /\ GraphIdle

NextRequest ==
  \/ RequestStart
  \/ RequestToken
  \/ RequestTokenFails
  \/ RequestFetchFails
  \/ RequestResponse
  \/ RequestForget

SpecRequest == InitRequest /\ [][NextRequest]_vars

\* the transport client as a whole, one operation at a time: graphRequest,
\* graphUpload and graphUploadLarge
NextTransport == NextRequest \/ NextUpload

SpecTransport == InitRequest /\ [][NextTransport]_vars

\* -------------------------------------------------------------- debug_info
\* no timer at all
TimeoutPromiseMissing == "off"

\* setTimeout(() => reject(new Error('Timeout after 10 seconds')), 10000)
TimeoutPromise == "armed"

\* graphTest = { status: 'FAILED', error: err.message }
Failed(m) == [status |-> "FAILED", error |-> m]

\* graphTest = { status: 'OK', user: ... }
Passed == [status |-> "OK", error |-> <<>>]

\* what the race settles with: the rejection of the timer when it fired
\* first, otherwise what graphRequest ended with (reading displayName of
\* null throws)
GraphTestOf(late, result) ==
  IF late THEN Failed(<<"Timeout after 10 seconds">>)
  ELSE IF result.kind = "error" THEN Failed(result.msg)
  ELSE IF result.value = "null" THEN Failed(<<"TypeError">>)
  ELSE Passed

\* executeCommand('debug_info'): the timer is set, graphRequest is called
\* and the race is awaited
DebugStart ==
  /\ dpc = "idle" /\ rpc = "idle" /\ upc = "idle"
  /\ timer' = TimeoutPromise
  /\ Called("GET", NoHeaders)
  /\ dpc' = "race"
  /\ UNCHANGED <<authVars, listVars, uploadVars, timedOut, graphTest, dres>>

\* 10 seconds have passed: the timeout promise rejects, which settles the
\* race unless graphRequest has settled it
TimerFires ==
  /\ timer = "armed"
  /\ timer' = "fired"
  /\ timedOut' = (dpc = "race" /\ rpc # "done")
  /\ UNCHANGED <<authVars, listVars, uploadVars, requestVars, dpc, graphTest,
                 dres>>

\* the await of the race resumes: graphTest is set, isAuthenticated is
\* called
DebugSettle ==
  /\ dpc = "race" /\ (timedOut \/ rpc = "done")
  /\ graphTest' = GraphTestOf(timedOut, rres)
  /\ dpc' = "auth"
  /\ UNCHANGED <<authVars, listVars, uploadVars, requestVars, timer,
                 timedOut, dres>>

\* isAuthenticated resolves; getCurrentUser is called
DebugAuth ==
  /\ dpc = "auth"
  /\ \E b \in BOOLEAN : dres' = [dres EXCEPT !.authenticated = b]
  /\ dpc' = "user"
  /\ UNCHANGED <<authVars, listVars, uploadVars, requestVars, timer,
                 timedOut, graphTest>>

\* getCurrentUser resolves: the result is returned
DebugUser ==
  /\ dpc = "user"
  /\ dres' = [dres EXCEPT !.graphApiTest = graphTest]
  /\ dpc' = "done"
  /\ UNCHANGED <<authVars, listVars, uploadVars, requestVars, timer,
                 timedOut, graphTest>>

\* the command has returned, its timer has fired and its graphRequest has
\* ended: nothing of it is left
DebugForget ==
  /\ dpc = "done" /\ timer = "fired" /\ rpc = "done"
  /\ dpc' = "idle"
  /\ timer' = "off"
  /\ timedOut' = FALSE
  /\ graphTest' = NoTest
  /\ dres' = NoDebug
  /\ rpc' = "idle"
  /\ method' = "GET"
  /\ headers' = NoHeaders
  /\ accessToken' = ""
  /\ tokenCalls' = 0
  /\ fetched' = <<>>
  /\ received' = NoResponse
  /\ bodyRead' = "none"
  /\ rres' = NoResult
  /\ UNCHANGED <<authVars, listVars, uploadVars>>

NextDebug ==
  \/ DebugStart
  \/ TimerFires
  \/ DebugSettle
  \/ DebugAuth
  \/ DebugUser
  \/ DebugForget
  \/ RequestToken
  \/ RequestTokenFails
  \/ RequestFetchFails
  \/ RequestResponse

SpecDebug == InitRequest /\ [][NextDebug]_vars

\* the event loop runs the timer and the continuations of the command;
\* nothing says that the token manager or the server ever answers
SpecDebugFair == SpecDebug /\ WF_vars(TimerFires) /\ WF_vars(DebugSettle)
                   /\ WF_vars(DebugAuth) /\ WF_vars(DebugUser)

\* ================================================================ claims
IsNotAuthenticated(r) == r = ErrorRes(NotAuthenticatedMsg)
IsReauthentication(r) ==
  \E m \in ProviderErrors : r = ErrorRes(ReauthenticationMsg(m))
Finished(c, o) == op[c] = o /\ pc[c] = "done"

\* C1: no getAccessToken, whatever its course (no account, renewal granted,
\* renewal rejected), issues a device-code request or waits for the user.
C1_NeverInteractive ==
  \A c \in Callers :
    op[c] = "getAccessToken" => sent[c].device = 0 /\ pc[c] # "awaitUser"

C1_Witness ==
  \E c, d \in Callers :
    /\ Finished(c, "getAccessToken") /\ IsNotAuthenticated(res[c])
    /\ Finished(d, "getAccessToken") /\ IsReauthentication(res[d])

\* C2 as stated: with a client ID configured, a getAccessToken that begins
\* with no cache file present fails with the "Not authenticated" error and
\* sends no renewal request.
C2_NoFileNotAuthenticated ==
  \A c \in Callers :
    Finished(c, "getAccessToken") /\ fileAtStart[c] = "absent" /\ clientId # ""
      => IsNotAuthenticated(res[c]) /\ sent[c].silent = 0

\* C3 as stated: at most one silent renewal is in flight at any moment.
C3_SingleFlight ==
  Cardinality({c \in Callers : pc[c] = "silentInFlight"}) <= 1

\* C4 as stated: at every point, also after a crash inside a write, the
\* cache file holds a complete serialized cache, never a partial or empty
\* text.
C4_AtomicUpdate == file.ex => Parses(file.data)

\* C5 as stated: the write being carried out is the one whose
\* afterCacheAccess call came first among the writes not finished yet,
\* whichever plugin of the process it was called on.
C5_Fifo == wr.on => wr.f = Head(calls)

\* C6: once two writers have both had their write carried out and no other
\* write is pending, the cache file is, complete and with nothing else in
\* it, the text that one of the two serialized for its write.
C6_OneWriterWins ==
  \A f, g \in Frames :
    ( /\ f # g /\ wrote[f] = 1 /\ wrote[g] = 1
      /\ pc[f] = "awaitWrite" \/ pc[g] = "awaitWrite"
      /\ \A h \in Frames \ {f, g} : wrote[h] = 0
      /\ calls = <<>> /\ ~wr.on )
    => \E w \in {f, g} : file.ex /\ file.data = intended[w]

C6_Witness ==
  \E f, g \in Frames :
    /\ f # g /\ wrote[f] = 1 /\ wrote[g] = 1
    /\ pc[f] = "awaitWrite" /\ pc[g] = "awaitWrite"
    /\ intended[f] # intended[g]
    /\ calls = <<>> /\ ~wr.on

Includes(msg, m) == \E i \in 1..Len(msg) : msg[i] = m

\* C7: a getAccessToken whose renewal request failed ends with an error
\* whose message includes the message the service answered with and which
\* differs, from its first words on, from the "Not authenticated" error.
C7_ReauthenticationError ==
  \A c \in Callers :
    Finished(c, "getAccessToken") /\ answer[c] # ""
      => /\ res[c].kind = "error"
         /\ Includes(res[c].msg, answer[c])
         /\ Head(res[c].msg) # Head(NotAuthenticatedMsg)
         /\ Head(res[c].msg) # Head(NoClientIdMsg)

C7_Witness ==
  \E c, d \in Callers :
    /\ Finished(c, "getAccessToken") /\ answer[c] = "invalid_grant"
    /\ Finished(d, "getAccessToken") /\ IsNotAuthenticated(res[d])

\* C8: a getAccessToken whose renewal was rejected ends with the
\* re-authentication error, has had no write of the cache file carried out
\* or queued, and leaves a cache file that held the account in place.
C8_RejectedLeavesCache ==
  \A c \in Callers :
    Finished(c, "getAccessToken") /\ answer[c] # ""
      => /\ IsReauthentication(res[c])
         /\ wrote[c] = 0
         /\ \A i \in 1..Len(calls) : calls[i] # c
         /\ fileAtStart[c] = "account" => FileClass = "account"

C8_Witness ==
  \E c \in Callers :
    /\ Finished(c, "getAccessToken") /\ answer[c] # ""
    /\ fileAtStart[c] = "account" /\ file.ex

HoldsAccount(f) ==
  f.ex /\ Parses(f.data) /\ Deserialize(f.data).acct > 0

C11_FailedLoginLeavesCache ==
  [][ ( \/ pc[LoginFrame] = "idle" /\ pc'[LoginFrame] # "idle"
        \/ /\ pc[LoginFrame] # "done" /\ pc'[LoginFrame] = "done"
           /\ res'[LoginFrame].kind = "error" )
      => /\ file' = file /\ tmp' = tmp /\ dirExists' = dirExists
         /\ calls' = calls /\ chain' = chain
         /\ wrote'[LoginFrame] = 0 ]_vars

C11_Witness ==
  /\ Finished(LoginFrame, "login") /\ res[LoginFrame].kind = "error"
  /\ answer[LoginFrame] = "expired_token"
  /\ file.ex /\ fileAtStart[LoginFrame] = "account"

\* C12: isAuthenticated ends with true or false, never an error, and has
\* sent no renewal request; the step in which it ends gives true exactly
\* when the instance could be had and its hydrated cache holds an account.
C12_IsAuthenticatedIffAccount ==
  /\ [](\A c \in Callers :
          Finished(c, "isAuthenticated")
            => res[c].kind \in {"true", "false"} /\ sent[c] = NoSent)
  /\ [][ \A c \in Callers :
          ( pc[c] # "done" /\ pc'[c] = "done"
            /\ op'[c] = "isAuthenticated" )
          => res'[c] = BoolRes(pc[c] = "accounts" /\ tmMem.acct > 0) ]_vars

C12_Witness ==
  \E c, d \in Callers :
    /\ Finished(c, "isAuthenticated") /\ res[c] = BoolRes(TRUE)
    /\ Finished(d, "getAccessToken") /\ IsReauthentication(res[d])

\* C13: a graphList invocation that returns, returns at most maxItems
\* items (maxItems >= 0), also when the bound falls inside a page.
C13_AtMostMaxItems ==
  lres.kind = "items" => Len(lres.items) <= maxItems

C13_Witness ==
  /\ lres.kind = "items" /\ maxItems > 0
  /\ Len(items) > maxItems /\ Len(lres.items) = maxItems

\* long enough for every page walk that ends
Fuel == MaxPages * (MaxItemsArg + 1) + 1

RECURSIVE ServerConcat(_, _, _)
\* the pages of the server from link on, in cursor order, until need items
\* are there or the cursor ends
ServerConcat(link, need, fuel) ==
  IF link = NoLink \/ link.base = "other" \/ need <= 0 \/ fuel = 0
    THEN <<>>
    ELSE server[link.page].value
           \o ServerConcat(server[link.page].next,
                           need - Len(server[link.page].value), fuel - 1)

FirstOf(seq, n) == [i \in 1..(IF n < Len(seq) THEN n ELSE Len(seq)) |-> seq[i]]

\* C14: the sequence graphList returns is the first maxItems items (all of
\* them when there are fewer) of the server's pages put together in cursor
\* order, duplicates included; and each page request goes to the path for
\* the first one and to the nextLink of the page requested before for the
\* others.
C14_PrefixInCursorOrder ==
  /\ [](lres.kind = "items"
          => lres.items = FirstOf(ServerConcat(GraphLink(1), maxItems, Fuel),
                                  maxItems))
  /\ [][ lpc = "token" /\ lpc' = "fetch"
          => asked' = IF asked = NoLink THEN PathTo(1)
                      ELSE UrlOf(server[asked.page].next) ]_vars

C14_Witness ==
  /\ lres.kind = "items" /\ Len(lres.items) >= 3
  /\ asked = PathTo(2)
  /\ \E i, j \in 1..Len(lres.items) : i < j /\ lres.items[i] = lres.items[j]

\* C15 as stated: every graphList invocation that has asked for a page
\* ends, with a sequence or an error, whatever the server's pages are.
C15_Terminates == (lpc = "token") ~> (lpc = "done")

\* C16: the second graphList invocation with the same arguments against the
\* same server returns the sequence the first one returned.
C16_SameResult ==
  round = 2 /\ lres.kind = "items" /\ first.kind = "items" => lres = first

C16_Witness ==
  /\ round = 2 /\ lres.kind = "items" /\ first.kind = "items"
  /\ Len(lres.items) >= 2 /\ Len(items) > Len(lres.items)

\* C17 as stated: uploadFile and uploadAndAttach send a payload shorter
\* than 4 MiB through the simple upload and a payload of 4 MiB or more,
\* exactly 4 MiB included, through the resumable upload.
C17_RoutingAtThreshold ==
  ucaller \in UploadCallers /\ route # "none"
    => /\ size < MAX_SIMPLE_UPLOAD => route = "simple"
       /\ size >= MAX_SIMPLE_UPLOAD => route = "large"

\* the resumable upload has got through its session and all its chunks
\* without a response that was not a success
Completed ==
  /\ route = "large" /\ ~failed
  /\ upc = "attach" \/ (upc = "done" /\ ures.msg # "Not authenticated")

Ceil(n, c) == (n + c - 1) \div c

\* C18: a resumable upload of size bytes that met no error has sent
\* ceil(size / CHUNK_SIZE) chunk PUTs, every Content-Range gives size as
\* the total, the end offsets increase strictly and the last one is
\* size - 1.
C18_ChunkCount ==
  Completed
    => /\ Len(puts) = Ceil(size, CHUNK_SIZE)
       /\ \A i \in 1..Len(puts) : puts[i].total = size
       /\ \A i \in 1..(Len(puts) - 1) : puts[i].last < puts[i + 1].last
       /\ puts # <<>> => puts[Len(puts)].last = size - 1

C18_Witness ==
  /\ Completed /\ ures = Metadata
  /\ Len(puts) >= 3 /\ size % CHUNK_SIZE # 0

\* C19: the first chunk of a resumable upload starts at offset 0, every
\* later chunk starts one byte after the end of the chunk before it, at
\* most one chunk PUT is unanswered, and a chunk is PUT only when all the
\* chunks before it have been answered with success.
C19_SequentialContiguous ==
  /\ puts # <<>> => puts[1].first = 0
  /\ \A i \in 1..(Len(puts) - 1) : puts[i + 1].first = puts[i].last + 1
  /\ inflight <= 1
  /\ Len(puts) <= acked + 1
  /\ inflight = 1 => Len(puts) = acked + 1 /\ ~failed

C19_Witness ==
  /\ Len(puts) >= 3 /\ inflight = 1 /\ acked = Len(puts) - 1

\* C20: once a response of an upload was not a success the upload has
\* ended with an error, no PUT is unanswered, and no chunk PUT is sent
\* afterwards.
C20_FirstFailureAborts ==
  /\ [](failed => upc = "done" /\ ures.kind = "error" /\ inflight = 0)
  /\ [][ failed => puts' = puts \/ (upc' = "idle" /\ puts' = <<>>) ]_vars

C20_Witness ==
  /\ failed /\ route = "large" /\ Len(puts) >= 2 /\ uploadedBytes < size
  /\ ures = UploadError("Upload chunk failed")

\* C21: an invocation of graphRequest calls getAccessToken at most once and
\* fetch at most once, whatever the response or the failure; it has called
\* fetch exactly once when it obtained a token, and not at all otherwise.
C21_NeverRetries ==
  /\ tokenCalls <= 1
  /\ Len(fetched) <= 1
  /\ Len(fetched) = (IF accessToken = "" THEN 0 ELSE 1)
  /\ rpc \in {"fetch", "done"} => tokenCalls = 1

C21_Witness ==
  /\ rpc = "done" /\ received.status \in {429, 503}
  /\ Len(fetched) = 1 /\ tokenCalls = 1 /\ rres.kind = "error"

\* the fetch call carries Authorization: Bearer <the token of the operation>
Authorized(call, t) ==
  /\ "Authorization" \in DOMAIN call.headers
  /\ call.headers["Authorization"] = Bearer(t)

\* C22 as stated: every fetch call of the transport client (graphRequest,
\* the simple PUT, the request that creates the upload session and every
\* chunk PUT) carries an Authorization header equal to 'Bearer ' followed
\* by the token the operation obtained from getAccessToken.
C22_AuthorizationOnEveryCall ==
  /\ \A i \in 1..Len(fetched) : Authorized(fetched[i], accessToken)
  /\ \A i \in 1..Len(ufetched) : Authorized(ufetched[i], uToken)

\* C22 as amended: every fetch call to the Graph base URL (graphRequest,
\* also with caller headers, the simple PUT and the request that creates
\* the upload session) carries Authorization: Bearer <the token of the
\* operation>, and a chunk PUT to the uploadUrl of the session carries no
\* Authorization header.
C22_AuthorizationOnGraphCalls ==
  /\ \A i \in 1..Len(fetched) : Authorized(fetched[i], accessToken)
  /\ \A i \in 1..Len(ufetched) :
       IF ufetched[i].call = "chunk"
         THEN "Authorization" \notin DOMAIN ufetched[i].headers
         ELSE Authorized(ufetched[i], uToken)

C22_Witness ==
  /\ rpc = "fetch" /\ headers # NoHeaders /\ method = "PATCH"
  /\ Len(fetched) = 1 /\ fetched[1].headers["If-Match"] = <<"etag">>

\* C23: when the response status is outside 200..299, graphRequest ends
\* with an error whose text holds the status and a message: the
\* error.message of the body for the body that is a JSON error payload with
\* a non-empty message, and the raw body text for every other body (no
\* text, no JSON, null, no error field, error that is no object, no message,
\* empty message).
C23_ErrorCarriesStatusAndMessage ==
  (rpc = "done" /\ received # NoResponse
     /\ (received.status < 200 \/ received.status > 299))
    => /\ rres.kind = "error"
       /\ Len(rres.msg) = 4
       /\ rres.msg[2] = received.status
       /\ rres.msg[4] =
            ( IF received.body = "{\"error\":{\"message\":\"Access denied\"}}"
                THEN "Access denied"
                ELSE received.body )

C23_Witness ==
  /\ rpc = "done" /\ received.status = 404
  /\ received.body = "{\"error\":{\"message\":\"Access denied\"}}"
  /\ rres.msg = <<"Graph API error (", 404, "): ", "Access denied">>

C24_SelfTestBounded ==
  /\ (dpc = "race") ~> (dpc = "done")
  /\ [](timedOut /\ dpc \in {"auth", "user", "done"}
          => graphTest = [status |-> "FAILED",
                          error |-> <<"Timeout after 10 seconds">>])
  /\ [](dpc = "done" => dres.graphApiTest = graphTest
                          /\ graphTest.status \in {"OK", "FAILED"})

C24_Witness ==
  /\ dpc = "done" /\ timedOut /\ rpc \in {"token", "fetch"}
  /\ dres.graphApiTest.status = "FAILED"

\* C25: graphList issues a page request only while a cursor is present and
\* fewer than maxItems items are accumulated: whenever a page request is
\* prepared, issued or unanswered both hold, and an invocation that
\* accumulated maxItems items or more has ended, whatever cursor the last
\* page carried.
C25_StopsAtBound ==
  /\ [](lpc \in {"token", "fetch"}
          => nextLink # NoLink /\ Len(items) < maxItems)
  /\ [][ (lpc # "fetch" /\ lpc' = "fetch")
           => nextLink # NoLink /\ Len(items) < maxItems /\ items' = items ]_vars
  /\ []((round >= 1 /\ lpc # "idle" /\ Len(items) >= maxItems) => lpc = "done")

C25_Witness ==
  /\ lpc = "done" /\ lres.kind = "items" /\ asked # NoLink
  /\ nextLink # NoLink /\ Len(items) > maxItems /\ maxItems >= 1

\* C26: a resumable upload that was given a progress callback has called it
\* once for each chunk answered with success and for nothing else (never
\* for a failed chunk); call i reports the offset after chunk i and the
\* payload length as the total, so that the reported offsets never
\* decrease and never exceed the total, and the last call of an upload that
\* returned the item reports the total. Without a callback nothing is
\* called.
C26_ProgressPerChunk ==
  /\ Len(progress) = (IF onProgress THEN acked ELSE 0)
  /\ \A i \in 1..Len(progress) :
       /\ progress[i][2] = size
       /\ progress[i][1] = puts[i].last + 1
       /\ progress[i][1] <= size
  /\ \A i \in 1..(Len(progress) - 1) : progress[i][1] <= progress[i + 1][1]
  /\ (onProgress /\ Completed /\ ures = Metadata)
       => progress # <<>> /\ progress[Len(progress)][1] = size

C26_Witness ==
  /\ onProgress /\ ures = Metadata /\ Len(progress) >= 3
  /\ progress[Len(progress)] = <<size, size>>

\* graphUploadLarge has returned the item
ReturnedItem ==
  /\ route = "large"
  /\ upc = "attach" \/ (upc = "done" /\ ures = Metadata)

\* C27: the only chunk response whose body a resumable upload reads is the
\* one of the last chunk PUT, read when every chunk has been answered with
\* success and uploadedBytes equals the payload length; an upload that
\* returned the item has read it, and the bodies of the earlier chunk
\* responses are never read.
C27_MetadataFromFinalChunk ==
  /\ ReturnedItem => parsed # <<>>
  /\ parsed # <<>>
       => /\ parsed = <<Len(puts)>>
          /\ acked = Len(puts) /\ inflight = 0 /\ ~failed
          /\ uploadedBytes = size
          /\ puts[Len(puts)].last + 1 = size
  /\ (route = "large" /\ upc = "chunk") => parsed = <<>>

C27_Witness ==
  /\ ReturnedItem /\ Len(puts) >= 3 /\ parsed = <<Len(puts)>>

\* C30: a resumable upload of an empty payload never sends a chunk PUT,
\* never calls the progress callback and never returns the item; once its
\* upload session is created it has ended with the error 'Upload completed
\* but no response received', its only fetch being the session request. An
\* upload of a payload of one byte or more never ends with that error.
C30_EmptyPayload ==
  /\ (route = "large" /\ size = 0)
       => /\ puts = <<>> /\ progress = <<>> /\ parsed = <<>>
          /\ ~ReturnedItem
          /\ \A i \in 1..Len(ufetched) : ufetched[i].call = "session"
          /\ (upc = "done" /\ uToken # "" /\ ~failed)
               => /\ Len(ufetched) = 1
                  /\ ures = [kind |-> "error",
                             msg |-> "Upload completed but no response received"]
  /\ size >= 1 => ures.msg # "Upload completed but no response received"

C30_Witness ==
  /\ route = "large" /\ size = 0 /\ upc = "done" /\ onProgress
  /\ Len(ufetched) = 1
  /\ ures.msg = "Upload completed but no response received"

\* the write asked for by frame f ended without having replaced the file
WriteFailedFor(f) ==
  /\ newTok[f] # 0 /\ wrote[f] = 0
  /\ pc[f] \in {"awaitWrite", "done"}
  /\ \A i \in 1..Len(calls) : calls[i] # f

\* the write at the head of a plugin's queue is being carried out or one of
\* its continuations is in the microtask queue
QueueRuns(p) ==
  chain[p] # <<>>
    => \/ wr.on /\ wr.f = Head(chain[p])
       \/ \E i \in 1..Len(microtasks) :
            /\ microtasks[i].f = Head(chain[p])
            /\ microtasks[i].k \in {"write", "thenable", "resolve"}

\* C29 as stated: when a queued write has failed (mkdir, temp write or
\* rename), the operation that awaited it ends with its normal result, no
\* temp file is left once the write has ended, and the queue of the plugin
\* keeps running: the write queued next is carried out.
C29_FailedWriteNeverBlocks ==
  /\ \A f \in Frames :
       (WriteFailedFor(f) /\ pc[f] = "done") => res[f].kind \in {"token", "ok"}
  /\ wr.step = "caught" => tmp = Absent
  /\ \A p \in {"tm", "login"} : QueueRuns(p)

\* C29 as amended: as stated, except that the temp file is left behind when
\* its removal fails as well (an error the cleanup ignores).
C29_FailedWriteRemovesTempIfItCan ==
  /\ \A f \in Frames :
       (WriteFailedFor(f) /\ pc[f] = "done") => res[f].kind \in {"token", "ok"}
  /\ (wr.step = "caught" /\ wr.data[2] # "unlink failed") => tmp = Absent
  /\ \A p \in {"tm", "login"} : QueueRuns(p)

C29_Witness ==
  \E f, g \in Callers :
    /\ f # g /\ WriteFailedFor(f) /\ pc[f] = "done" /\ res[f].kind = "token"
    /\ wrote[g] = 1 /\ newTok[g] > newTok[f]
    /\ file.ex /\ file.data = intended[g] /\ tmp = Absent

TypeOK ==
  /\ copy \in Copies
  /\ issued \in 0..MaxTok
  /\ \A f \in Frames : wrote[f] \in 0..1
  /\ \A f \in Frames : intended[f] = <<>> \/ Parses(intended[f])
  /\ \A f \in Frames : newTok[f] \in 0..MaxTok /\ prevTok[f] \in 0..MaxTok
  /\ wr.on => wr.f \in Frames
  /\ copy = "queued" => (file.ex => Parses(file.data))

====
